---- MODULE Spec2Model ----
(***************************************************************************)
(* The branch prediction unit of MIPT-MIPS (simulator/bpu/bpu.h): the      *)
(* set-associative prediction table BP<T>, and the factory BPFactory that  *)
(* builds it by name.                                                      *)
(*                                                                         *)
(* bpu.h includes two headers of the repository that are not among the     *)
(* sources at hand: infra/cache/cache_tag_array.h (CacheTagArray) and      *)
(* bpu/bpentry.h (the five BPEntry classes).  Their operators below are    *)
(* written from the specification (sections 4.1 and 6) and are marked as   *)
(* such; everything named BP_* / BPFactory_* / is_taken / get_target /     *)
(* get_bp_info / update is translated from bpu.h.                          *)
(***************************************************************************)
EXTENDS Integers, Sequences, FiniteSets, TLC

VARIABLES map, bp, tags, data, last, err, exit, nupd, trace

\* The ports test (simulator/infra/ports/t/unit_test.cpp): the cycle of the
\* test loop, the statement it is at, the queues of the four ports, the
\* checker's table, the locals of the test body and of the clock functions,
\* whether an assertion has failed, and the record of port calls.
VARIABLES cycle, pc, ports, blogic, loc, failed, events

bpuVars == <<map, bp, tags, data, last, err, exit, nupd, trace>>

testVars == <<cycle, pc, ports, blogic, loc, failed, events>>

vars == <<map, bp, tags, data, last, err, exit, nupd, trace,
          cycle, pc, ports, blogic, loc, failed, events>>

(***************************************************************************)
(* Bounds and program constants                                            *)
(***************************************************************************)
\* Number of update calls made on one table.
MaxUpdates == 3
\* Number of update calls in a recorded run of trainings of one address.
MaxRun == 6
\* Number of calls in a recorded run of updates and queries.
MaxCalls == 5

\* bpu.h:86  return PC + 4
InstrSize == 4
\* A tag array built for two-byte lines.
Granularity_halfword == InstrSize \div 2

\* bpu.h:62  granularity handed to CacheTagArray
Granularity == 4
\* bpu.h:153 BPEntryAdaptive<2>
HistoryDepth == 2
\* bpu.h:168 std::exit( EXIT_FAILURE)
EXIT_FAILURE == 1
\* unit_test.cpp:18 PORT_LATENCY = 1_Lt
PORT_LATENCY == 1
\* unit_test.cpp:22 DATA_LIMIT = 5
DATA_LIMIT == 5
\* unit_test.cpp:23 CLOCK_LIMIT = 10_Cl
CLOCK_LIMIT == 10
\* unit_test.cpp:70 Logic::EXPECTED_MAX_CYCLE = 8_Cl
EXPECTED_MAX_CYCLE == 8
\* unit_test.cpp:43 Logic::NONE
NONE == -1

\* Instruction addresses (word aligned, as MIPS instruction addresses are).
Addrs == {0, 4, 8}
\* Branch targets; 0 is backward for every address, 16 is forward.
Targets == {0, 16}
\* (size_in_entries, ways) pairs handed to create.
Geometries == {<<1, 1>>, <<2, 1>>, <<2, 2>>}

NoTarget == -1
NoWay == -1
NoTag == -1
NoExit == -1

\* The saturating counter's four states.
SNT == 0
WNT == 1
WT == 2
ST == 3

(***************************************************************************)
(* BPFactory: the registry                                                 *)
(***************************************************************************)
\* std::map iterates in key order.
KeyOrder ==
    << "adaptive_two_level", "dynamic_one_bit", "dynamic_two_bit",
       "static_always_taken", "static_backward_jumps" >>

BogusNames == {"bogus_name"}

BPFactory_map_swapped ==
    [n \in {KeyOrder[i] : i \in 1..Len(KeyOrder)} |->
        CASE n = "static_always_taken"   -> [alg |-> "OneBit", depth |-> 0]
          [] n = "static_backward_jumps" -> [alg |-> "BackwardJumps", depth |-> 0]
          [] n = "dynamic_one_bit"       -> [alg |-> "AlwaysTaken", depth |-> 0]
          [] n = "dynamic_two_bit"       -> [alg |-> "TwoBit", depth |-> 0]
          [] n = "adaptive_two_level"    -> [alg |-> "Adaptive", depth |-> HistoryDepth]]

BPFactory_map ==
    [n \in {KeyOrder[i] : i \in 1..Len(KeyOrder)} |->
        CASE n = "static_always_taken"   -> [alg |-> "AlwaysTaken", depth |-> 0]
          [] n = "static_backward_jumps" -> [alg |-> "BackwardJumps", depth |-> 0]
          [] n = "dynamic_one_bit"       -> [alg |-> "OneBit", depth |-> 0]
          [] n = "dynamic_two_bit"       -> [alg |-> "TwoBit", depth |-> 0]
          [] n = "adaptive_two_level"    -> [alg |-> "Adaptive", depth |-> HistoryDepth]]

(***************************************************************************)
(* Prediction entries (bpentry.h, written from section 4.1)                *)
(***************************************************************************)
Pow2(n) == IF n = 0 THEN 1 ELSE IF n = 1 THEN 2 ELSE IF n = 2 THEN 4 ELSE 8

\* The cold state of a saturating counter is not stated.  For a freshly
\* allocated entry to answer taken after one taken training (section 8,
\* train-then-query on a new table) a TwoBit counter must start above
\* strongly-not-taken, and an Adaptive counter, read under the history
\* already shifted, must start in a taken state.  Every such start is kept.
ColdStates(kind) ==
    CASE kind.alg = "TwoBit"   -> {WNT, WT, ST}
      [] kind.alg = "Adaptive" -> {WT, ST}
      [] OTHER                 -> {SNT}

counter_update(c, taken) ==
    IF taken THEN (IF c = ST THEN ST ELSE c + 1)
             ELSE (IF c = SNT THEN SNT ELSE c - 1)

counter_is_taken(c) == c \in {WT, ST}

entry_reset(b) ==
    [ target |-> NoTarget,
      bit    |-> FALSE,
      ctr    |-> b.cold,
      hist   |-> 0,
      tbl    |-> [i \in 0..(Pow2(b.kind.depth) - 1) |-> b.cold] ]

entry_update_target(e, target) == [e EXCEPT !.target = target]

entry_getTarget(e) == e.target

entry_is_taken(kind, e, PC) ==
    CASE kind.alg = "AlwaysTaken"   -> TRUE
      [] kind.alg = "BackwardJumps" -> e.target <= PC
      [] kind.alg = "OneBit"        -> e.bit
      [] kind.alg = "TwoBit"        -> counter_is_taken(e.ctr)
      [] kind.alg = "Adaptive"      -> counter_is_taken(e.tbl[e.hist])

entry_update(kind, e, taken, target) ==
    CASE kind.alg = "AlwaysTaken"   -> [e EXCEPT !.target = target]
      [] kind.alg = "BackwardJumps" -> [e EXCEPT !.target = target, !.bit = taken]
      [] kind.alg = "OneBit"        -> [e EXCEPT !.target = target, !.bit = taken]
      [] kind.alg = "TwoBit"        ->
            [e EXCEPT !.target = target, !.ctr = counter_update(@, taken)]
      [] kind.alg = "Adaptive"      ->
            [e EXCEPT !.target = target,
                      !.tbl[e.hist] = counter_update(@, taken),
                      !.hist = (2 * @ + (IF taken THEN 1 ELSE 0)) % Pow2(kind.depth)]

(***************************************************************************)
(* The address store (cache_tag_array.h, written from sections 2 and 6)    *)
(***************************************************************************)
num_sets(b) == b.size \div b.ways

tags_set(b, PC) == (PC \div Granularity) % num_sets(b)

tags_tag(PC) == PC \div Granularity

tags_ctor(b) ==
    [ tag |-> [s \in 0..(num_sets(b) - 1) |-> [w \in 0..(b.ways - 1) |-> NoTag]],
      lru |-> [s \in 0..(num_sets(b) - 1) |-> [i \in 1..b.ways |-> i - 1]] ]

\* The way becomes the most recently used one of its set.
lru_touch(l, w) == SelectSeq(l, LAMBDA x : x # w) \o <<w>>

tags_read_no_touch(b, t, PC) ==
    LET s  == tags_set(b, PC)
        ws == {w \in 0..(b.ways - 1) : t.tag[s][w] = tags_tag(PC)}
    IN  IF ws = {}
        THEN [hit |-> FALSE, way |-> NoWay, tags |-> t]
        ELSE [hit |-> TRUE, way |-> CHOOSE w \in ws : TRUE, tags |-> t]

tags_read(b, t, PC) ==
    LET r == tags_read_no_touch(b, t, PC)
        s == tags_set(b, PC)
    IN  IF r.hit
        THEN [r EXCEPT !.tags = [t EXCEPT !.lru[s] = lru_touch(@, r.way)]]
        ELSE r

tags_write(b, t, PC) ==
    LET s == tags_set(b, PC)
        w == Head(t.lru[s])
    IN  [ way  |-> w,
          tags |-> [t EXCEPT !.tag[s][w] = tags_tag(PC),
                             !.lru[s] = lru_touch(@, w)] ]

(***************************************************************************)
(* BP<T>: the prediction table (bpu.h:45-109)                              *)
(***************************************************************************)
NoBP == [kind |-> [alg |-> "none", depth |-> 0], size |-> 0, ways |-> 0, cold |-> SNT]

\* data built with the two dimensions exchanged: size_in_entries / ways
\* columns of ways rows.
BP_data_transposed(b) ==
    [w \in 0..((b.size \div b.ways) - 1) |-> [s \in 0..(b.ways - 1) |-> entry_reset(b)]]

\* bpu.h:52-64.  data( ways, std::vector<T>( size_in_entries / ways)) holds
\* default-constructed entries; tags is built for the same size and ways.
BP_data(b) ==
    [w \in 0..(b.ways - 1) |-> [s \in 0..((b.size \div b.ways) - 1) |-> entry_reset(b)]]

BP_tags(b) == tags_ctor(b)

\* is_taken with the touching lookup in place of the no_touch one.
is_taken_touch(b, t, d, PC) ==
    LET r == tags_read(b, t, PC)
    IN  [ ret  |-> r.hit /\ entry_is_taken(b.kind, d[r.way][tags_set(b, PC)], PC),
          tags |-> r.tags ]

\* is_taken without the is_hit conjunct: the entry is asked on a miss too.
is_taken_no_hit_check(b, t, d, PC) ==
    LET r == tags_read_no_touch(b, t, PC)
        w == IF r.hit THEN r.way ELSE 0
    IN  [ ret  |-> entry_is_taken(b.kind, d[w][tags_set(b, PC)], PC),
          tags |-> r.tags ]

\* bpu.h:67-74
is_taken(b, t, d, PC) ==
    LET r == tags_read_no_touch(b, t, PC)
    IN  [ ret  |-> r.hit /\ entry_is_taken(b.kind, d[r.way][tags_set(b, PC)], PC),
          tags |-> r.tags ]

\* get_target without the direction check of bpu.h:83.
get_target_any_hit(b, t, d, PC) ==
    LET r == tags_read_no_touch(b, t, PC)
    IN  IF r.hit
        THEN [ret |-> entry_getTarget(d[r.way][tags_set(b, PC)]), tags |-> r.tags]
        ELSE [ret |-> PC + InstrSize, tags |-> r.tags]

\* get_target with the fallthrough past a delay slot, PC + 8.
get_target_plus8(b, t, d, PC) ==
    LET r  == tags_read_no_touch(b, t, PC)
        it == is_taken(b, r.tags, d, PC)
    IN  IF r.hit
        THEN IF it.ret
             THEN [ret |-> entry_getTarget(d[r.way][tags_set(b, PC)]), tags |-> it.tags]
             ELSE [ret |-> PC + 2 * InstrSize, tags |-> it.tags]
        ELSE [ret |-> PC + 2 * InstrSize, tags |-> r.tags]

\* bpu.h:76-87.  The direction is asked of is_taken, which looks the address
\* up a second time; && evaluates it only on a hit.
get_target(b, t, d, PC) ==
    LET r  == tags_read_no_touch(b, t, PC)
        it == is_taken(b, r.tags, d, PC)
    IN  IF r.hit
        THEN IF it.ret
             THEN [ret |-> entry_getTarget(d[r.way][tags_set(b, PC)]), tags |-> it.tags]
             ELSE [ret |-> PC + InstrSize, tags |-> it.tags]
        ELSE [ret |-> PC + InstrSize, tags |-> r.tags]

\* update that calls tags.write only while the set has an unused way: in a
\* full set a missing address is trained in place and nothing is evicted.
update_no_evict(b, t, d, ev) ==
    LET s    == tags_set(b, ev.pc)
        r    == tags_read(b, t, ev.pc)
        full == \A w \in 0..(b.ways - 1) : t.tag[s][w] # NoTag
    IN  IF ~r.hit /\ ~full
        THEN LET w     == tags_write(b, r.tags, ev.pc)
                 entry == entry_update_target(entry_reset(b), ev.target)
             IN  [ tags |-> w.tags,
                   data |-> [d EXCEPT ![w.way][s] =
                                entry_update(b.kind, entry, ev.taken, ev.target)] ]
        ELSE [ tags |-> r.tags,
               data |-> [d EXCEPT ![IF r.hit THEN r.way ELSE 0][s] =
                            entry_update(b.kind, @, ev.taken, ev.target)] ]

\* update without the training call of bpu.h:102 on the miss path.
update_no_train_on_miss(b, t, d, ev) ==
    LET s == tags_set(b, ev.pc)
        r == tags_read(b, t, ev.pc)
    IN  IF ~r.hit
        THEN LET w == tags_write(b, r.tags, ev.pc)
             IN  [ tags |-> w.tags,
                   data |-> [d EXCEPT ![w.way][s] =
                                entry_update_target(entry_reset(b), ev.target)] ]
        ELSE [ tags |-> r.tags,
               data |-> [d EXCEPT ![r.way][s] =
                            entry_update(b.kind, @, ev.taken, ev.target)] ]

\* update that resets the entry on a hit as well.
update_reset_on_hit(b, t, d, ev) ==
    LET s == tags_set(b, ev.pc)
        r == tags_read(b, t, ev.pc)
        w == IF r.hit THEN [way |-> r.way, tags |-> r.tags]
                      ELSE tags_write(b, r.tags, ev.pc)
        entry == entry_update_target(entry_reset(b), ev.target)
    IN  [ tags |-> w.tags,
          data |-> [d EXCEPT ![w.way][s] =
                       entry_update(b.kind, entry, ev.taken, ev.target)] ]

\* update that applies the training call of bpu.h:102 only to taken branches.
update_train_taken_only(b, t, d, ev) ==
    LET s == tags_set(b, ev.pc)
        r == tags_read(b, t, ev.pc)
    IN  IF ~r.hit
        THEN LET w     == tags_write(b, r.tags, ev.pc)
                 entry == entry_update_target(entry_reset(b), ev.target)
             IN  [ tags |-> w.tags,
                   data |-> [d EXCEPT ![w.way][s] =
                                IF ev.taken
                                THEN entry_update(b.kind, entry, ev.taken, ev.target)
                                ELSE entry] ]
        ELSE [ tags |-> r.tags,
               data |-> [d EXCEPT ![r.way][s] =
                            IF ev.taken
                            THEN entry_update(b.kind, @, ev.taken, ev.target)
                            ELSE @] ]

\* update whose seeding call on the miss path (bpu.h:99) is a full training
\* call, so that a newly allocated entry is trained twice.
update_train_twice_on_miss(b, t, d, ev) ==
    LET s == tags_set(b, ev.pc)
        r == tags_read(b, t, ev.pc)
    IN  IF ~r.hit
        THEN LET w     == tags_write(b, r.tags, ev.pc)
                 entry == entry_update(b.kind, entry_reset(b), ev.taken, ev.target)
             IN  [ tags |-> w.tags,
                   data |-> [d EXCEPT ![w.way][s] =
                                entry_update(b.kind, entry, ev.taken, ev.target)] ]
        ELSE [ tags |-> r.tags,
               data |-> [d EXCEPT ![r.way][s] =
                            entry_update(b.kind, @, ev.taken, ev.target)] ]

\* update without the reset of bpu.h:98: the allocated coordinate keeps the
\* direction state its previous owner left.
update_no_reset(b, t, d, ev) ==
    LET s == tags_set(b, ev.pc)
        r == tags_read(b, t, ev.pc)
    IN  IF ~r.hit
        THEN LET w     == tags_write(b, r.tags, ev.pc)
                 entry == entry_update_target(d[w.way][s], ev.target)
             IN  [ tags |-> w.tags,
                   data |-> [d EXCEPT ![w.way][s] =
                                entry_update(b.kind, entry, ev.taken, ev.target)] ]
        ELSE [ tags |-> r.tags,
               data |-> [d EXCEPT ![r.way][s] =
                            entry_update(b.kind, @, ev.taken, ev.target)] ]

\* update that, on a miss, resets and trains the entry of way 0 instead of
\* the way tags.write returned.
update_train_way0_on_miss(b, t, d, ev) ==
    LET s == tags_set(b, ev.pc)
        r == tags_read(b, t, ev.pc)
    IN  IF ~r.hit
        THEN LET w     == tags_write(b, r.tags, ev.pc)
                 entry == entry_update_target(entry_reset(b), ev.target)
             IN  [ tags |-> w.tags,
                   data |-> [d EXCEPT ![0][s] =
                                entry_update(b.kind, entry, ev.taken, ev.target)] ]
        ELSE [ tags |-> r.tags,
               data |-> [d EXCEPT ![r.way][s] =
                            entry_update(b.kind, @, ev.taken, ev.target)] ]

\* update that, on a miss, resets the entries of every way of the set before
\* it trains the allocated one.
update_reset_set_on_miss(b, t, d, ev) ==
    LET s == tags_set(b, ev.pc)
        r == tags_read(b, t, ev.pc)
    IN  IF ~r.hit
        THEN LET w     == tags_write(b, r.tags, ev.pc)
                 entry == entry_update_target(entry_reset(b), ev.target)
             IN  [ tags |-> w.tags,
                   data |-> [x \in DOMAIN d |->
                                [d[x] EXCEPT ![s] =
                                    IF x = w.way
                                    THEN entry_update(b.kind, entry, ev.taken, ev.target)
                                    ELSE entry_reset(b)]] ]
        ELSE [ tags |-> r.tags,
               data |-> [d EXCEPT ![r.way][s] =
                            entry_update(b.kind, @, ev.taken, ev.target)] ]

\* update whose lookup is the peek of the queries (read_no_touch) instead of
\* tags.read: a training hit leaves the replacement order as it is.
update_peek(b, t, d, ev) ==
    LET s == tags_set(b, ev.pc)
        r == tags_read_no_touch(b, t, ev.pc)
    IN  IF ~r.hit
        THEN LET w     == tags_write(b, r.tags, ev.pc)
                 entry == entry_update_target(entry_reset(b), ev.target)
             IN  [ tags |-> w.tags,
                   data |-> [d EXCEPT ![w.way][s] =
                                entry_update(b.kind, entry, ev.taken, ev.target)] ]
        ELSE [ tags |-> r.tags,
               data |-> [d EXCEPT ![r.way][s] =
                            entry_update(b.kind, @, ev.taken, ev.target)] ]

\* bpu.h:90-103
update(b, t, d, ev) ==
    LET s == tags_set(b, ev.pc)
        r == tags_read(b, t, ev.pc)
    IN  IF ~r.hit
        THEN LET w     == tags_write(b, r.tags, ev.pc)
                 entry == entry_update_target(entry_reset(b), ev.target)
             IN  [ tags |-> w.tags,
                   data |-> [d EXCEPT ![w.way][s] =
                                entry_update(b.kind, entry, ev.taken, ev.target)] ]
        ELSE [ tags |-> r.tags,
               data |-> [d EXCEPT ![r.way][s] =
                            entry_update(b.kind, @, ev.taken, ev.target)] ]

\* get_bp_info that reports the fallthrough whatever the direction.
get_bp_info_fallthrough(b, t, d, PC) ==
    LET it == is_taken(b, t, d, PC)
    IN  [ ret  |-> [pc |-> PC, taken |-> it.ret, target |-> PC + InstrSize],
          tags |-> it.tags ]

\* bpu.h:105-108
get_bp_info(b, t, d, PC) ==
    LET it == is_taken(b, t, d, PC)
        gt == get_target(b, it.tags, d, PC)
    IN  [ ret  |-> [pc |-> PC, taken |-> it.ret, target |-> gt.ret],
          tags |-> gt.tags ]

(***************************************************************************)
(* BPFactory::create (bpu.h:156-172)                                       *)
(***************************************************************************)
\* The fatal path's output without the loop over the map.
create_error_output_name_only(m, name) ==
    <<"ERROR. Invalid branch prediction mode", name, "Supported modes:">>

\* What the fatal path writes to std::cerr: the invalid name, then the keys
\* of the map in iteration order.
create_error_output(m, name) ==
    <<"ERROR. Invalid branch prediction mode", name, "Supported modes:">>
        \o SelectSeq(KeyOrder, LAMBDA n : n \in DOMAIN m)

(***************************************************************************)
(* Ports (infra/ports/ports.h, not among the sources at hand; written from *)
(* the calls the test makes: a write port and the read port of the same    *)
(* name share a queue, a written value is stamped with the cycle of the    *)
(* write plus the latency, and is ready in exactly that cycle)             *)
(***************************************************************************)
PortNames == {"init_A", "A_to_B", "B_to_A", "stop"}

port_write(ps, name, d, c) ==
    [ps EXCEPT ![name] = Append(@, [data |-> d, cycle |-> c + PORT_LATENCY])]

port_is_ready(ps, name, c) ==
    ps[name] # <<>> /\ Head(ps[name]).cycle = c

port_read(ps, name) ==
    [ret |-> Head(ps[name]).data, ports |-> [ps EXCEPT ![name] = Tail(@)]]

\* check_ports: a value whose cycle has passed was lost.
port_lost(ps, c) ==
    \E n \in PortNames : ps[n] # <<>> /\ Head(ps[n]).cycle < c

(***************************************************************************)
(* Logic: the checker of the ports test (unit_test.cpp:23-70, 187-260)     *)
(***************************************************************************)
Logic_State(a, b, i, da, db) ==
    [ is_from_A_ready |-> a, is_from_B_ready |-> b, is_init_ready |-> i,
      data_from_A |-> da, data_from_B |-> db ]

\* A table that expects a value in the cycle it is written in.
Logic_blogic_same_cycle ==
    [ c \in 0..EXPECTED_MAX_CYCLE |->
        CASE c = 0 -> Logic_State(FALSE, FALSE, TRUE,  NONE, NONE)
          [] c = 1 -> Logic_State(TRUE,  FALSE, FALSE, 1,    NONE)
          [] c = 2 -> Logic_State(FALSE, TRUE,  FALSE, NONE, 2)
          [] c = 3 -> Logic_State(TRUE,  FALSE, FALSE, 3,    NONE)
          [] c = 4 -> Logic_State(FALSE, TRUE,  FALSE, NONE, 4)
          [] c = 5 -> Logic_State(TRUE,  FALSE, FALSE, 5,    NONE)
          [] c = 6 -> Logic_State(FALSE, TRUE,  FALSE, NONE, 6)
          [] OTHER -> Logic_State(FALSE, FALSE, FALSE, NONE, NONE) ]

\* unit_test.cpp:55-67
Logic_blogic ==
    [ c \in 0..EXPECTED_MAX_CYCLE |->
        CASE c = 0 -> Logic_State(FALSE, FALSE, FALSE, NONE, NONE)
          [] c = 1 -> Logic_State(FALSE, FALSE, TRUE,  NONE, NONE)
          [] c = 2 -> Logic_State(TRUE,  FALSE, FALSE, 1,    NONE)
          [] c = 3 -> Logic_State(FALSE, TRUE,  FALSE, NONE, 2)
          [] c = 4 -> Logic_State(TRUE,  FALSE, FALSE, 3,    NONE)
          [] c = 5 -> Logic_State(FALSE, TRUE,  FALSE, NONE, 4)
          [] c = 6 -> Logic_State(TRUE,  FALSE, FALSE, 5,    NONE)
          [] c = 7 -> Logic_State(FALSE, TRUE,  FALSE, NONE, 6)
          [] c = 8 -> Logic_State(FALSE, FALSE, FALSE, NONE, NONE) ]

\* unit_test.cpp:187-237.  Returns the verdict and the table, in which a
\* flag that was found set is cleared for the later checks of the cycle.
check_readiness(bl, c, code, is_ready) ==
    IF c > EXPECTED_MAX_CYCLE
    THEN [ok |-> FALSE, blogic |-> bl]
    ELSE CASE code = "IS_STOP_READY" ->
                [ok |-> ((c = EXPECTED_MAX_CYCLE) = is_ready), blogic |-> bl]
           [] code = "IS_INIT_READY" ->
                LET ok == bl[c].is_init_ready = is_ready
                IN  [ ok     |-> ok,
                      blogic |-> IF ok /\ is_ready
                                 THEN [bl EXCEPT ![c].is_init_ready = FALSE] ELSE bl ]
           [] code = "IS_FROM_A_READY" ->
                LET ok == bl[c].is_from_A_ready = is_ready
                IN  [ ok     |-> ok,
                      blogic |-> IF ok /\ is_ready
                                 THEN [bl EXCEPT ![c].is_from_A_ready = FALSE] ELSE bl ]
           [] code = "IS_FROM_B_READY" ->
                LET ok == bl[c].is_from_B_ready = is_ready
                IN  [ ok     |-> ok,
                      blogic |-> IF ok /\ is_ready
                                 THEN [bl EXCEPT ![c].is_from_B_ready = FALSE] ELSE bl ]
           [] OTHER -> [ok |-> FALSE, blogic |-> bl]

\* unit_test.cpp:239-260
check_data(bl, c, code, d) ==
    IF c > EXPECTED_MAX_CYCLE \/ d < 0
    THEN FALSE
    ELSE CASE code = "DATA_INIT"   -> c = 1 /\ d = 0
           [] code = "DATA_FROM_A" -> bl[c].data_from_A = d
           [] code = "DATA_FROM_B" -> bl[c].data_from_B = d
           [] OTHER                -> FALSE

\* A::process_data that sends stop as soon as the limit is reached.
A_process_data_at_limit(ps, d, c) ==
    IF d + 1 >= DATA_LIMIT
    THEN [port |-> "stop", data |-> TRUE, ports |-> port_write(ps, "stop", TRUE, c)]
    ELSE [port |-> "A_to_B", data |-> d + 1, ports |-> port_write(ps, "A_to_B", d + 1, c)]

\* unit_test.cpp:272-285.  Returns the port written, the value and the ports.
A_process_data(ps, d, c) ==
    IF d + 1 > DATA_LIMIT
    THEN [port |-> "stop", data |-> TRUE, ports |-> port_write(ps, "stop", TRUE, c)]
    ELSE [port |-> "A_to_B", data |-> d + 1, ports |-> port_write(ps, "A_to_B", d + 1, c)]

\* unit_test.cpp:333-338
B_process_data(ps, d, c) ==
    [port |-> "B_to_A", data |-> d + 1, ports |-> port_write(ps, "B_to_A", d + 1, c)]

(***************************************************************************)
(* State machine                                                           *)
(***************************************************************************)
\* The locals of the test body (is_ready), of A::clock (is_init_ready,
\* is_from_B_ready, data) and of B::clock (is_from_A_ready, data).
NoLocals ==
    [ is_ready |-> FALSE, is_init_ready |-> FALSE, is_from_B_ready |-> FALSE,
      is_from_A_ready |-> FALSE, data_A |-> NONE, data_B |-> NONE ]

NoOp == [op |-> "none", name |-> "", pc |-> 0, taken |-> FALSE, target |-> NoTarget]

Init ==
    /\ map = BPFactory_map
    /\ bp = NoBP
    /\ tags = <<>>
    /\ data = <<>>
    /\ last = NoOp
    /\ err = <<>>
    /\ exit = NoExit
    /\ nupd = 0
    /\ trace = <<>>
    /\ cycle = 0
    /\ pc = "init_write"
    /\ ports = [n \in PortNames |-> <<>>]
    /\ blogic = Logic_blogic
    /\ loc = NoLocals
    /\ failed = FALSE
    /\ events = <<>>

\* factory.create( name, size_in_entries, ways); cold is the entry classes'
\* cold counter state (see ColdStates).  The caller builds its tables before
\* it trains one: a table that has been trained is not replaced.
Create(name, size, ways, cold) ==
    /\ exit = NoExit
    /\ nupd = 0
    /\ last' = [NoOp EXCEPT !.op = "create", !.name = name]
    /\ UNCHANGED <<map, trace>>
    /\ UNCHANGED testVars
    /\ IF name \notin DOMAIN map
       THEN /\ err' = err \o create_error_output(map, name)
            /\ exit' = EXIT_FAILURE
            /\ UNCHANGED <<bp, tags, data, nupd>>
       ELSE LET b == [kind |-> map[name], size |-> size, ways |-> ways, cold |-> cold]
            IN  /\ cold \in ColdStates(map[name])
                /\ bp' = b
                /\ tags' = BP_tags(b)
                /\ data' = BP_data(b)
                /\ nupd' = 0
                /\ UNCHANGED <<err, exit>>

UpdateCall(PC, taken, target) ==
    /\ exit = NoExit
    /\ bp # NoBP
    /\ LET r == update(bp, tags, data, [pc |-> PC, taken |-> taken, target |-> target])
       IN  /\ tags' = r.tags
           /\ data' = r.data
    /\ nupd' = nupd + 1
    /\ last' = [NoOp EXCEPT !.op = "update", !.pc = PC, !.taken = taken, !.target = target]
    /\ UNCHANGED <<map, bp, err, exit>>
    /\ UNCHANGED testVars

Update(PC, taken, target) ==
    /\ nupd < MaxUpdates
    /\ UpdateCall(PC, taken, target)
    /\ UNCHANGED trace

IsTaken(PC) ==
    /\ exit = NoExit
    /\ bp # NoBP
    /\ LET r == is_taken(bp, tags, data, PC)
       IN  /\ tags' = r.tags
           /\ last' = [NoOp EXCEPT !.op = "is_taken", !.pc = PC, !.taken = r.ret]
    /\ UNCHANGED <<map, bp, data, err, exit, nupd, trace>>
    /\ UNCHANGED testVars

GetTarget(PC) ==
    /\ exit = NoExit
    /\ bp # NoBP
    /\ LET r == get_target(bp, tags, data, PC)
       IN  /\ tags' = r.tags
           /\ last' = [NoOp EXCEPT !.op = "get_target", !.pc = PC, !.target = r.ret]
    /\ UNCHANGED <<map, bp, data, err, exit, nupd, trace>>
    /\ UNCHANGED testVars

GetBpInfo(PC) ==
    /\ exit = NoExit
    /\ bp # NoBP
    /\ LET r == get_bp_info(bp, tags, data, PC)
       IN  /\ tags' = r.tags
           /\ last' = [NoOp EXCEPT !.op = "get_bp_info", !.pc = r.ret.pc,
                                   !.taken = r.ret.taken, !.target = r.ret.target]
    /\ UNCHANGED <<map, bp, data, err, exit, nupd, trace>>
    /\ UNCHANGED testVars

Next ==
    \/ \E name \in DOMAIN BPFactory_map \cup BogusNames, g \in Geometries, cold \in SNT..ST :
          Create(name, g[1], g[2], cold)
    \/ \E PC \in Addrs, taken \in BOOLEAN, target \in Targets : Update(PC, taken, target)
    \/ \E PC \in Addrs : IsTaken(PC)
    \/ \E PC \in Addrs : GetTarget(PC)
    \/ \E PC \in Addrs : GetBpInfo(PC)

Spec == Init /\ [][Next]_vars

(***************************************************************************)
(* A recorded run of trainings of one address of a TwoBit table: trace     *)
(* keeps, per update of SatAddr, the trained direction and the counter the *)
(* entry holds afterwards.  Another address is trained in between.         *)
(***************************************************************************)
SatAddr == CHOOSE a \in Addrs : \A b \in Addrs : a <= b
OtherAddr == SatAddr + InstrSize

SatCreate(size, ways, cold) == Create("dynamic_two_bit", size, ways, cold)

SatUpdate(taken, target) ==
    /\ nupd < MaxRun
    /\ UpdateCall(SatAddr, taken, target)
    /\ LET r == tags_read_no_touch(bp, tags', SatAddr)
       IN  trace' = Append(trace, [taken |-> taken,
                                   ctr   |-> data'[r.way][tags_set(bp, SatAddr)].ctr])

\* Only where the other address cannot evict SatAddr.
SatOther(taken) ==
    /\ bp.size > 1
    /\ trace # <<>>
    /\ nupd < MaxRun
    /\ UpdateCall(OtherAddr, taken, CHOOSE t \in Targets : \A u \in Targets : u <= t)
    /\ UNCHANGED trace

SatNext ==
    \/ \E g \in Geometries, cold \in SNT..ST : SatCreate(g[1], g[2], cold)
    \/ \E taken \in BOOLEAN, target \in Targets : SatUpdate(taken, target)
    \/ \E taken \in BOOLEAN : SatOther(taken)
    \/ IsTaken(SatAddr)

SpecSat == Init /\ [][SatNext]_vars

(***************************************************************************)
(* A recorded run of updates and queries on one table: trace keeps, per    *)
(* call, the operation, the address, the addresses resident before the     *)
(* call and the addresses the call evicted.  Every update carries the same *)
(* direction and target, so a training hit changes nothing in the entry.   *)
(***************************************************************************)
Resident(b, t) ==
    {a \in Addrs : tags_read_no_touch(b, t, a).hit}

Recorded(op, PC) ==
    trace' = Append(trace, [ op       |-> op,
                             pc       |-> PC,
                             resident |-> Resident(bp, tags),
                             evicted  |-> Resident(bp, tags) \ Resident(bp, tags') ])

\* The run is recorded on one table.
RunCreate(size, ways) ==
    /\ trace = <<>>
    /\ Create("dynamic_one_bit", size, ways, SNT)

RunUpdate(PC) ==
    /\ Len(trace) < MaxCalls
    /\ UpdateCall(PC, TRUE, CHOOSE t \in Targets : \A u \in Targets : u <= t)
    /\ Recorded("update", PC)

RunQuery(PC) ==
    /\ Len(trace) < MaxCalls
    /\ exit = NoExit
    /\ bp # NoBP
    /\ LET r == get_bp_info(bp, tags, data, PC)
       IN  /\ tags' = r.tags
           /\ last' = [NoOp EXCEPT !.op = "get_bp_info", !.pc = r.ret.pc,
                                   !.taken = r.ret.taken, !.target = r.ret.target]
    /\ Recorded("query", PC)
    /\ UNCHANGED <<map, bp, data, err, exit, nupd>>
    /\ UNCHANGED testVars

RunNext ==
    \/ \E g \in Geometries : RunCreate(g[1], g[2])
    \/ \E PC \in Addrs : RunUpdate(PC)
    \/ \E PC \in Addrs : RunQuery(PC)

SpecRun == Init /\ [][RunNext]_vars

(***************************************************************************)
(* Tables whose capacity is and is not a multiple of the number of ways.   *)
(***************************************************************************)
OddGeometries == {<<3, 2>>, <<4, 2>>, <<5, 2>>, <<5, 3>>}

GeomCreate(size, ways) == Create("dynamic_one_bit", size, ways, SNT)

GeomNext ==
    \/ \E g \in OddGeometries : GeomCreate(g[1], g[2])
    \/ \E PC \in Addrs, taken \in BOOLEAN, target \in Targets : Update(PC, taken, target)
    \/ \E PC \in Addrs : IsTaken(PC)
    \/ \E PC \in Addrs : GetTarget(PC)
    \/ \E PC \in Addrs : GetBpInfo(PC)

SpecGeom == Init /\ [][GeomNext]_vars

(***************************************************************************)
(* Tables trained and queried with addresses that are not word aligned.    *)
(***************************************************************************)
ByteAddrs == {0, 3, 4, 8}

GranCreate(size, ways) == Create("dynamic_one_bit", size, ways, SNT)

GranNext ==
    \/ \E g \in Geometries : GranCreate(g[1], g[2])
    \/ \E PC \in ByteAddrs, taken \in BOOLEAN, target \in Targets : Update(PC, taken, target)
    \/ \E PC \in ByteAddrs : IsTaken(PC)
    \/ \E PC \in ByteAddrs : GetTarget(PC)
    \/ \E PC \in ByteAddrs : GetBpInfo(PC)

SpecGran == Init /\ [][GranNext]_vars

(***************************************************************************)
(* The ports test TEST( test_ports, Test_Ports_A_B) (unit_test.cpp:130-169) *)
(* with A::clock and B::clock, one step per statement.  pc names the       *)
(* statement to execute next.  A failed ASSERT_TRUE returns from the       *)
(* function it is in: from the test body to the end of the test, from      *)
(* A::clock and B::clock to their caller.                                  *)
(***************************************************************************)
Ev(kind, port, val) == [kind |-> kind, port |-> port, cycle |-> cycle, val |-> val]

\* port->is_ready( cycle) into a local.
IsReadyCall(at, port, local, next) ==
    /\ pc = at
    /\ loc' = [loc EXCEPT ![local] = port_is_ready(ports, port, cycle)]
    /\ events' = Append(events, Ev("is_ready", port, port_is_ready(ports, port, cycle)))
    /\ pc' = next
    /\ UNCHANGED <<cycle, ports, blogic, failed>>
    /\ UNCHANGED bpuVars

\* ASSERT_TRUE( logic.check_readiness( cycle, code, local))
ReadinessAssert(at, code, local, onFail, next) ==
    /\ pc = at
    /\ LET r == check_readiness(blogic, cycle, code, loc[local])
       IN  /\ blogic' = r.blogic
           /\ failed' = (failed \/ ~r.ok)
           /\ pc' = IF r.ok THEN next ELSE onFail
    /\ UNCHANGED <<cycle, ports, loc, events>>
    /\ UNCHANGED bpuVars

\* local = port->read( cycle)
ReadCall(at, port, local, next) ==
    /\ pc = at
    /\ LET r == port_read(ports, port)
       IN  /\ ports' = r.ports
           /\ loc' = [loc EXCEPT ![local] = r.ret]
           /\ events' = Append(events, Ev("read", port, r.ret))
    /\ pc' = next
    /\ UNCHANGED <<cycle, blogic, failed>>
    /\ UNCHANGED bpuVars

\* ASSERT_TRUE( logic.check_data( cycle, code, local))
DataAssert(at, code, local, onFail, next) ==
    /\ pc = at
    /\ LET ok == check_data(blogic, cycle, code, loc[local])
       IN  /\ failed' = (failed \/ ~ok)
           /\ pc' = IF ok THEN next ELSE onFail
    /\ UNCHANGED <<cycle, ports, blogic, loc, events>>
    /\ UNCHANGED bpuVars

\* unit_test.cpp:145  init.write( 0, 0_Cl)
TestInitWrite ==
    /\ pc = "init_write"
    /\ ports' = port_write(ports, "init_A", 0, 0)
    /\ events' = Append(events, Ev("write", "init_A", 0))
    /\ pc' = "stop_is_ready"
    /\ UNCHANGED <<cycle, blogic, loc, failed>>
    /\ UNCHANGED bpuVars

\* unit_test.cpp:152
TestStopIsReady == IsReadyCall("stop_is_ready", "stop", "is_ready", "stop_check")

\* unit_test.cpp:153-160
TestStopCheck ==
    ReadinessAssert("stop_check", "IS_STOP_READY", "is_ready", "done",
                    IF loc.is_ready THEN "stop_read" ELSE "A_init_is_ready")

\* unit_test.cpp:158-159  stop.read( cycle); break
TestStopRead == ReadCall("stop_read", "stop", "is_ready", "done")

\* unit_test.cpp:295
A_InitIsReady == IsReadyCall("A_init_is_ready", "init_A", "is_init_ready", "A_init_check")

\* unit_test.cpp:296-298
A_InitCheck ==
    ReadinessAssert("A_init_check", "IS_INIT_READY", "is_init_ready",
                    "B_is_ready", "A_from_B_is_ready")

\* unit_test.cpp:300
A_FromBIsReady ==
    IsReadyCall("A_from_B_is_ready", "B_to_A", "is_from_B_ready", "A_from_B_check")

\* unit_test.cpp:301-320: the check, then the choice of the port to read,
\* or the break out of the loop.
A_FromBCheck ==
    ReadinessAssert("A_from_B_check", "IS_FROM_B_READY", "is_from_B_ready",
                    "B_is_ready",
                    IF loc.is_init_ready THEN "A_read_init"
                    ELSE IF loc.is_from_B_ready THEN "A_read_from_B"
                    ELSE "B_is_ready")

\* unit_test.cpp:307
A_ReadInit == ReadCall("A_read_init", "init_A", "data_A", "A_check_init")

\* unit_test.cpp:308-310
A_CheckInit == DataAssert("A_check_init", "DATA_INIT", "data_A", "B_is_ready", "A_process")

\* unit_test.cpp:314
A_ReadFromB == ReadCall("A_read_from_B", "B_to_A", "data_A", "A_check_from_B")

\* unit_test.cpp:315-317
A_CheckFromB ==
    DataAssert("A_check_from_B", "DATA_FROM_B", "data_A", "B_is_ready", "A_process")

\* unit_test.cpp:322  process_data( data, cycle), then the loop again
A_Process ==
    /\ pc = "A_process"
    /\ LET r == A_process_data(ports, loc.data_A, cycle)
       IN  /\ ports' = r.ports
           /\ events' = Append(events, Ev("write", r.port, r.data))
    /\ pc' = "A_init_is_ready"
    /\ UNCHANGED <<cycle, blogic, loc, failed>>
    /\ UNCHANGED bpuVars

\* unit_test.cpp:343
B_IsReady == IsReadyCall("B_is_ready", "A_to_B", "is_from_A_ready", "B_check")

\* unit_test.cpp:344-347
B_Check ==
    ReadinessAssert("B_check", "IS_FROM_A_READY", "is_from_A_ready", "check_ports",
                    IF loc.is_from_A_ready THEN "B_read" ELSE "check_ports")

\* unit_test.cpp:350
B_Read == ReadCall("B_read", "A_to_B", "data_B", "B_check_data")

\* unit_test.cpp:351-353
B_CheckData == DataAssert("B_check_data", "DATA_FROM_A", "data_B", "check_ports", "B_process")

\* unit_test.cpp:355
B_Process ==
    /\ pc = "B_process"
    /\ LET r == B_process_data(ports, loc.data_B, cycle)
       IN  /\ ports' = r.ports
           /\ events' = Append(events, Ev("write", r.port, r.data))
    /\ pc' = "check_ports"
    /\ UNCHANGED <<cycle, blogic, loc, failed>>
    /\ UNCHANGED bpuVars

\* unit_test.cpp:165  check_ports( cycle)
TestCheckPorts ==
    /\ pc = "check_ports"
    /\ failed' = (failed \/ port_lost(ports, cycle))
    /\ pc' = IF port_lost(ports, cycle) THEN "done" ELSE "cycle_inc"
    /\ UNCHANGED <<cycle, ports, blogic, loc, events>>
    /\ UNCHANGED bpuVars

\* unit_test.cpp:148  cycle.inc(); cycle < CLOCK_LIMIT
TestCycleInc ==
    /\ pc = "cycle_inc"
    /\ cycle' = cycle + 1
    /\ pc' = IF cycle + 1 < CLOCK_LIMIT THEN "stop_is_ready" ELSE "done"
    /\ UNCHANGED <<ports, blogic, loc, failed, events>>
    /\ UNCHANGED bpuVars

TestNext ==
    \/ TestInitWrite
    \/ TestStopIsReady
    \/ TestStopCheck
    \/ TestStopRead
    \/ A_InitIsReady
    \/ A_InitCheck
    \/ A_FromBIsReady
    \/ A_FromBCheck
    \/ A_ReadInit
    \/ A_CheckInit
    \/ A_ReadFromB
    \/ A_CheckFromB
    \/ A_Process
    \/ B_IsReady
    \/ B_Check
    \/ B_Read
    \/ B_CheckData
    \/ B_Process
    \/ TestCheckPorts
    \/ TestCycleInc

SpecTest == Init /\ [][TestNext]_vars

\* The test is one thread that runs to its end: no statement waits.
SpecTestFair == SpecTest /\ WF_vars(TestNext)

(***************************************************************************)
(* Observations of a state, used by the properties below                   *)
(***************************************************************************)
QueryOps == {"is_taken", "get_target", "get_bp_info"}

HasTable == bp # NoBP

\* The ways of a's set whose tag is a's.
WaysOf(a) == {w \in 0..(bp.ways - 1) : tags.tag[tags_set(bp, a)][w] = tags_tag(a)}

Hit(a) == HasTable /\ WaysOf(a) # {}

\* The entry at the coordinate the address store holds a at.
EntryOf(a) == data[CHOOSE w \in WaysOf(a) : TRUE][tags_set(bp, a)]

IsTakenNow(a) == is_taken(bp, tags, data, a).ret

GetTargetNow(a) == get_target(bp, tags, data, a).ret

GetBpInfoNow(a) == get_bp_info(bp, tags, data, a).ret

Alg == bp.kind.alg

(***************************************************************************)
(* C1.  Prediction queries are read-only: a step that is an is_taken, a    *)
(* get_target or a get_bp_info call, for a resident or an absent address,  *)
(* leaves the resident addresses, the replacement order and every          *)
(* prediction entry as they were.                                          *)
(***************************************************************************)
C1_QueriesReadOnly ==
    [][last'.op \in QueryOps => (tags' = tags /\ data' = data /\ bp' = bp)]_vars

\* A query has just been answered for the least recently used resident
\* address of a full two-way set, the one a touching lookup would reorder.
C1_Witness ==
    /\ HasTable
    /\ last.op \in QueryOps
    /\ bp.ways = 2
    /\ Hit(last.pc)
    /\ Head(tags.lru[tags_set(bp, last.pc)]) \in WaysOf(last.pc)
    /\ \A w \in 0..1 : tags.tag[tags_set(bp, last.pc)][w] # NoTag

(***************************************************************************)
(* C2.  Train-then-query.  As claimed: right after update({a, taken=true,  *)
(* target=T}) on an AlwaysTaken, OneBit, TwoBit or Adaptive table, in any  *)
(* table state, is_taken(a) is true and get_target(a) is T.                *)
(***************************************************************************)
TrainedAlgs == {"AlwaysTaken", "OneBit", "TwoBit", "Adaptive"}

EntryBefore(a) == IF Hit(a) THEN EntryOf(a) ELSE entry_reset(bp)

\* Whether a taken training of entry e leaves it predicting taken.
TakenAfterTakenTraining(e) ==
    CASE Alg = "AlwaysTaken" -> TRUE
      [] Alg = "OneBit"      -> TRUE
      [] Alg = "TwoBit"      -> e.ctr # SNT
      [] Alg = "Adaptive"    ->
            LET h == (2 * e.hist + 1) % Pow2(bp.kind.depth)
            IN  IF h = e.hist THEN e.tbl[h] # SNT ELSE e.tbl[h] \in {WT, ST}

(***************************************************************************)
(* C2 as amended.  After update({a, taken=true, target=T}): on AlwaysTaken *)
(* and OneBit tables is_taken(a) is true and get_target(a) is T in every   *)
(* table state; on a TwoBit table that holds exactly when the counter the  *)
(* entry had before the training (the reset state on a miss) was not       *)
(* strongly-not-taken, and on an Adaptive table exactly when the counter   *)
(* selected by the shifted history is in a taken state; a freshly          *)
(* allocated entry is such a case.  Otherwise is_taken(a) is false and     *)
(* get_target(a) is a + 4.  The answers stay as they are across queries    *)
(* and across updates for other addresses that leave a resident.           *)
(***************************************************************************)
C2_Step ==
    /\ \A a \in Addrs :
          (/\ HasTable /\ Alg \in TrainedAlgs
           /\ last'.op = "update" /\ last'.pc = a /\ last'.taken) =>
             LET ok == TakenAfterTakenTraining(EntryBefore(a))
             IN  /\ IsTakenNow(a)' = ok
                 /\ GetTargetNow(a)' = (IF ok THEN last'.target ELSE a + InstrSize)
                 /\ ~Hit(a) => ok
    /\ \A a \in Addrs :
          (/\ \/ last'.op \in QueryOps
              \/ last'.op = "update" /\ last'.pc # a
           /\ Hit(a)
           /\ Hit(a)')
             => \/ (tags' = tags /\ data' = data)
                \/ (IsTakenNow(a)' = IsTakenNow(a) /\ GetTargetNow(a)' = GetTargetNow(a))

C3_ColdTable ==
    HasTable =>
        /\ nupd = 0 => \A a \in Addrs : ~Hit(a)
        /\ \A a \in Addrs :
              ~Hit(a) => (~IsTakenNow(a) /\ GetTargetNow(a) = a + InstrSize)
        /\ (last.op = "is_taken" /\ ~Hit(last.pc)) => ~last.taken
        /\ (last.op = "get_target" /\ ~Hit(last.pc)) => last.target = last.pc + InstrSize

\* get_target has been answered on a table that was never trained.
C3_Witness ==
    /\ HasTable
    /\ nupd = 0
    /\ last.op = "get_target"
    /\ last.target = last.pc + InstrSize

(***************************************************************************)
(* C4.  Peek non-interference and eviction in a 1-way table of one entry:  *)
(* while a is resident, a query for any address leaves a resident with its *)
(* prediction, and one update for another address evicts a, after which a  *)
(* answers as a cold miss (not taken, a + 4).                              *)
(***************************************************************************)
OneEntryTable == HasTable /\ bp.size = 1 /\ bp.ways = 1

C4_Step ==
    \A a \in Addrs :
        (OneEntryTable /\ Hit(a)) =>
            /\ last'.op \in QueryOps =>
                  (Hit(a)' /\ IsTakenNow(a)' = IsTakenNow(a))
            /\ (last'.op = "update" /\ last'.pc # a) =>
                  (~Hit(a)' /\ ~IsTakenNow(a)' /\ GetTargetNow(a)' = a + InstrSize)

C4_PeekNonInterference == [][C4_Step]_vars

\* In the one-entry table an address other than the resident, taken one has
\* just been queried.
C4_Witness ==
    /\ OneEntryTable
    /\ last.op \in {"is_taken", "get_target"}
    /\ ~Hit(last.pc)
    /\ \E a \in Addrs : Hit(a) /\ IsTakenNow(a)

(***************************************************************************)
(* C5.  get_target(a) is the resident entry's stored target exactly when a *)
(* hits and is_taken(a) is true, and a + 4 otherwise; a hit predicted      *)
(* not-taken does not expose its stored target.                            *)
(***************************************************************************)
C5_GetTarget ==
    HasTable =>
        \A a \in Addrs :
            /\ GetTargetNow(a) =
                  (IF Hit(a) /\ IsTakenNow(a) THEN EntryOf(a).target ELSE a + InstrSize)
            /\ last.op = "get_target" /\ last.pc = a => last.target = GetTargetNow(a)

\* get_target has been answered for a resident address predicted not taken
\* whose stored target is not the fallthrough.
C5_Witness ==
    /\ HasTable
    /\ last.op = "get_target"
    /\ Hit(last.pc)
    /\ ~IsTakenNow(last.pc)
    /\ EntryOf(last.pc).target # last.pc + InstrSize
    /\ EntryOf(last.pc).target # NoTarget

(***************************************************************************)
(* C6.  get_bp_info(a) equals what one non-mutating lookup gives when both *)
(* the direction and the target are derived from its hit/way result: its   *)
(* taken is is_taken(a), its target is get_target(a), and the target       *)
(* differs from a + 4 only if taken.                                       *)
(***************************************************************************)
OneLookupInfo(a) ==
    LET r     == tags_read_no_touch(bp, tags, a)
        taken == r.hit /\ entry_is_taken(bp.kind, data[r.way][tags_set(bp, a)], a)
    IN  [ pc     |-> a,
          taken  |-> taken,
          target |-> IF taken THEN entry_getTarget(data[r.way][tags_set(bp, a)])
                              ELSE a + InstrSize ]

C6_BpInfoOneLookup ==
    HasTable =>
        \A a \in Addrs :
            /\ GetBpInfoNow(a) = OneLookupInfo(a)
            /\ GetBpInfoNow(a).taken = IsTakenNow(a)
            /\ GetBpInfoNow(a).target = GetTargetNow(a)
            /\ GetBpInfoNow(a).target # a + InstrSize => GetBpInfoNow(a).taken
            /\ last.op = "get_bp_info" /\ last.pc = a =>
                  [pc |-> last.pc, taken |-> last.taken, target |-> last.target]
                      = OneLookupInfo(a)

\* get_bp_info has reported a taken branch with a target other than a + 4.
C6_Witness ==
    /\ HasTable
    /\ last.op = "get_bp_info"
    /\ last.taken
    /\ last.target # last.pc + InstrSize

(***************************************************************************)
(* C7.  Selector fatal path: create with a name that is not registered     *)
(* returns no table and builds none; it writes the invalid name, followed  *)
(* by all five recognized names, to the error channel and ends the process *)
(* with a non-zero status, after which nothing more happens.               *)
(***************************************************************************)
RecognizedNames ==
    { "static_always_taken", "static_backward_jumps", "dynamic_one_bit",
      "dynamic_two_bit", "adaptive_two_level" }

C7_FatalStep ==
    (last'.op = "create" /\ last'.name \notin RecognizedNames) =>
        /\ exit' = EXIT_FAILURE
        /\ exit' # 0
        /\ bp' = bp /\ tags' = tags /\ data' = data
        /\ Len(err') > Len(err)
        /\ SubSeq(err', 1, Len(err)) = err
        /\ \E i \in (Len(err) + 1)..Len(err') :
              /\ err'[i] = last'.name
              /\ \A n \in RecognizedNames : \E j \in (i + 1)..Len(err') : err'[j] = n

C7_SelectorFatal == [][exit = NoExit /\ C7_FatalStep]_vars

\* create( "bogus_name", ...) has ended the process.
C7_Witness ==
    /\ last.op = "create"
    /\ last.name = "bogus_name"
    /\ exit = EXIT_FAILURE
    /\ Len(err) = 8

(***************************************************************************)
(* C8.  Selector success path: create succeeds exactly for the five        *)
(* recognized names, each giving a table of the corresponding algorithm    *)
(* (adaptive_two_level with history length 2) that answers at once as a    *)
(* cold table; the registry holds the same five names in every state.      *)
(***************************************************************************)
C8_Expected(n) ==
    CASE n = "static_always_taken"   -> [alg |-> "AlwaysTaken", depth |-> 0]
      [] n = "static_backward_jumps" -> [alg |-> "BackwardJumps", depth |-> 0]
      [] n = "dynamic_one_bit"       -> [alg |-> "OneBit", depth |-> 0]
      [] n = "dynamic_two_bit"       -> [alg |-> "TwoBit", depth |-> 0]
      [] n = "adaptive_two_level"    -> [alg |-> "Adaptive", depth |-> 2]

C8_SelectorSuccess ==
    /\ DOMAIN map = RecognizedNames
    /\ \A n \in RecognizedNames : map[n] = C8_Expected(n)
    /\ last.op = "create" =>
          /\ last.name \in RecognizedNames <=> exit = NoExit
          /\ last.name \in RecognizedNames =>
                /\ HasTable
                /\ bp.kind = C8_Expected(last.name)
                /\ DOMAIN data[0][0].tbl = 0..(Pow2(bp.kind.depth) - 1)
                /\ \A a \in Addrs :
                      ~IsTakenNow(a) /\ GetTargetNow(a) = a + InstrSize

\* create( "adaptive_two_level", ...) has returned a table.
C8_Witness ==
    /\ last.op = "create"
    /\ last.name = "adaptive_two_level"
    /\ exit = NoExit
    /\ HasTable
    /\ bp.kind.depth = 2

(***************************************************************************)
(* C9.  TwoBit saturation through the table, for one address kept          *)
(* resident: from strongly-not-taken three consecutive taken updates reach *)
(* strongly-taken; a taken update at strongly-taken stays there; a         *)
(* not-taken update at strongly-taken gives weakly-taken, and is_taken is  *)
(* still true.  Checked on the recorded run of SpecSat.                    *)
(***************************************************************************)
\* The counter the i-th update of the run found: the one the update before
\* left, or that of the entry reset by the first, allocating update.
CtrBefore(i) == IF i = 1 THEN bp.cold ELSE trace[i - 1].ctr

C9_TwoBitSaturation ==
    \A i \in 1..Len(trace) :
        /\ trace[i].ctr \in SNT..ST
        /\ (/\ CtrBefore(i) = SNT
            /\ i + 2 <= Len(trace)
            /\ trace[i].taken /\ trace[i + 1].taken /\ trace[i + 2].taken)
              => trace[i + 2].ctr = ST
        /\ (CtrBefore(i) = ST /\ trace[i].taken) => trace[i].ctr = ST
        /\ (CtrBefore(i) = ST /\ ~trace[i].taken) => trace[i].ctr = WT
        /\ i = Len(trace) =>
              /\ Hit(SatAddr)
              /\ EntryOf(SatAddr).ctr = trace[i].ctr
              /\ IsTakenNow(SatAddr) = (trace[i].ctr \in {WT, ST})
              /\ (CtrBefore(i) = ST /\ ~trace[i].taken) => IsTakenNow(SatAddr)

\* From strongly-not-taken: taken four times, then not taken once; the
\* address has been asked and answers taken.
C9_Witness ==
    /\ Len(trace) = 6
    /\ CtrBefore(2) = SNT
    /\ \A i \in 2..5 : trace[i].taken
    /\ trace[4].ctr = ST /\ trace[5].ctr = ST
    /\ ~trace[6].taken
    /\ trace[6].ctr = WT
    /\ last.op = "is_taken" /\ last.pc = SatAddr /\ last.taken

(***************************************************************************)
(* C10.  AlwaysTaken invariance: in an AlwaysTaken table, after updates    *)
(* with any taken values, is_taken(a) is true for every address that hits  *)
(* in the address store and false for every address that misses.           *)
(***************************************************************************)
C10_AlwaysTaken ==
    (HasTable /\ Alg = "AlwaysTaken") =>
        /\ \A a \in Addrs : IsTakenNow(a) = Hit(a)
        /\ last.op = "is_taken" => last.taken = Hit(last.pc)

\* A not-taken training has just been applied, another address misses, and
\* the trained address answers taken.
C10_Witness ==
    /\ HasTable /\ Alg = "AlwaysTaken"
    /\ nupd >= 2
    /\ last.op = "update" /\ ~last.taken
    /\ IsTakenNow(last.pc)
    /\ \E a \in Addrs : ~Hit(a)

(***************************************************************************)
(* C11  BackwardJumps rule.  In a table built with the BackwardJumps       *)
(* algorithm, right after update({a, taken, target = T}) the direction     *)
(* predicted for a is exactly T <= a, whatever the trained taken flag      *)
(* was: with T <= a (T = a included) is_taken(a) is true and               *)
(* get_target(a) is T, with T > a the answer is not taken and the          *)
(* fallthrough.  For every resident address the direction is the           *)
(* comparison of the stored (most recently trained) target with the        *)
(* address.                                                                *)
(***************************************************************************)
C11_BackwardJumps ==
    (HasTable /\ Alg = "BackwardJumps") =>
        /\ last.op = "update" =>
              /\ Hit(last.pc)
              /\ EntryOf(last.pc).target = last.target
              /\ IsTakenNow(last.pc) = (last.target <= last.pc)
              /\ GetTargetNow(last.pc) =
                    IF last.target <= last.pc THEN last.target
                                              ELSE last.pc + InstrSize
        /\ \A a \in Addrs :
              Hit(a) => IsTakenNow(a) = (EntryOf(a).target <= a)

\* A BackwardJumps table that was last trained not-taken on the boundary
\* T = a, on an address that had been trained with another target before,
\* and predicts taken with target T.
C11_Witness ==
    /\ HasTable /\ Alg = "BackwardJumps"
    /\ nupd >= 2
    /\ last.op = "update" /\ ~last.taken
    /\ last.target = last.pc
    /\ \A a \in Addrs : a # last.pc => ~Hit(a)
    /\ IsTakenNow(last.pc)
    /\ GetTargetNow(last.pc) = last.target

(***************************************************************************)
(* C14  One training per update.  An update for a, on a hit or after an    *)
(* allocation, moves a's entry by exactly one training step from the       *)
(* state it trains (the resident entry on a hit, the reset entry on a      *)
(* miss): the target becomes the event's target; a OneBit entry holds the  *)
(* event's direction; a TwoBit counter makes one saturating step; an       *)
(* Adaptive entry makes one saturating step of the counter its old         *)
(* history selects, leaves its other counters alone and shifts its         *)
(* history by one outcome.                                                 *)
(***************************************************************************)
\* c2 is c after one saturating step in the direction taken.
OneCounterStep(c, c2, taken) ==
    IF taken THEN c2 = (IF c < ST THEN c + 1 ELSE ST)
             ELSE c2 = (IF c > SNT THEN c - 1 ELSE SNT)

C14_Step ==
    \A a \in Addrs :
        (/\ last'.op = "update" /\ last'.pc = a
         /\ HasTable) =>
            LET pre == EntryBefore(a)
                tk  == last'.taken
            IN  /\ Hit(a)'
                /\ EntryOf(a)'.target = last'.target
                /\ Alg \in {"OneBit", "BackwardJumps"} => EntryOf(a)'.bit = tk
                /\ Alg = "TwoBit" => OneCounterStep(pre.ctr, EntryOf(a)'.ctr, tk)
                /\ Alg = "Adaptive" =>
                      /\ EntryOf(a)'.hist =
                            (2 * pre.hist + (IF tk THEN 1 ELSE 0)) % Pow2(HistoryDepth)
                      /\ \A h \in DOMAIN pre.tbl :
                            IF h = pre.hist
                            THEN OneCounterStep(pre.tbl[h], EntryOf(a)'.tbl[h], tk)
                            ELSE EntryOf(a)'.tbl[h] = pre.tbl[h]
                /\ Alg # "Adaptive" => EntryOf(a)'.tbl = pre.tbl /\ EntryOf(a)'.hist = pre.hist
                /\ Alg # "TwoBit" => EntryOf(a)'.ctr = pre.ctr

C14_TrainOncePerUpdate == [][C14_Step]_vars

\* A taken update has just allocated an entry of a table of counters that
\* start below saturation, and the entry is one step above the cold state:
\* for TwoBit its counter, for Adaptive the counter of the empty history,
\* with the history shifted once.
C14_Witness ==
    /\ HasTable /\ nupd = 1
    /\ last.op = "update" /\ last.taken
    /\ bp.cold = WT
    /\ Hit(last.pc)
    /\ \/ Alg = "TwoBit" /\ EntryOf(last.pc).ctr = ST
       \/ /\ Alg = "Adaptive"
          /\ EntryOf(last.pc).hist = 1
          /\ EntryOf(last.pc).tbl[0] = ST
          /\ EntryOf(last.pc).tbl[1] = WT

(***************************************************************************)
(* C15  No stale state across reallocation.  When an update for b misses,  *)
(* whether the coordinate it is given is unused or was another address's,  *)
(* the entry b has afterwards is the cold entry trained once with the      *)
(* event: it is determined by the event and the table's construction       *)
(* parameters alone, and so are is_taken(b) and get_target(b); nothing of  *)
(* what was stored at the coordinate before enters it.                     *)
(***************************************************************************)
\* The entry an allocation by the event [taken, target] leaves.
FreshlyTrained(taken, target) ==
    entry_update(bp.kind, entry_update_target(entry_reset(bp), target), taken, target)

C15_Step ==
    \A a \in Addrs :
        (/\ last'.op = "update" /\ last'.pc = a
         /\ HasTable /\ ~Hit(a)) =>
            LET e == FreshlyTrained(last'.taken, last'.target)
                t == entry_is_taken(bp.kind, e, a)
            IN  /\ Hit(a)'
                /\ EntryOf(a)' = e
                /\ IsTakenNow(a)' = t
                /\ GetTargetNow(a)' = (IF t THEN last'.target ELSE a + InstrSize)

C15_NoStaleState == [][C15_Step]_vars

\* A one-set, two-way Adaptive table after three updates: the third one,
\* taken, gave its address way 0, which the first update had allocated to
\* another address and trained, and the entry shows one training from cold
\* (history shifted once, only the counter of the empty history moved).
C15_Witness ==
    /\ HasTable /\ Alg = "Adaptive" /\ bp.cold = WT
    /\ bp.size = 2 /\ bp.ways = 2
    /\ nupd = 3
    /\ last.op = "update" /\ last.taken
    /\ tags.tag[0][0] = tags_tag(last.pc)
    /\ tags.tag[0][1] \notin {NoTag, tags_tag(last.pc)}
    /\ data[0][0].hist = 1
    /\ data[0][0].tbl[0] = ST
    /\ \A h \in 1..(Pow2(HistoryDepth) - 1) : data[0][0].tbl[h] = WT

(***************************************************************************)
(* C16  Addressing and entry storage stay synchronized.  An address is     *)
(* held in at most one way of its set.  After update for a, the            *)
(* coordinate a query's peek lookup yields for a is the coordinate whose   *)
(* entry the update reset and trained (on a hit: the coordinate a had      *)
(* before, trained in place), and is_taken(a) reads that entry.  While a   *)
(* stays resident, queries and updates for other addresses move neither    *)
(* a's coordinate nor the entry at it.  So a query for a resident address  *)
(* reads the entry that holds that address's own training.                 *)
(***************************************************************************)
\* The way a query's peek lookup yields for a.
PeekWay(a) == tags_read_no_touch(bp, tags, a).way

C16_Step ==
    \A a \in Addrs :
        /\ HasTable' => Cardinality(WaysOf(a))' <= 1
        /\ (/\ last'.op = "update" /\ last'.pc = a
            /\ HasTable) =>
              LET s   == tags_set(bp, a)
                  pre == IF Hit(a)
                         THEN data[PeekWay(a)][s]
                         ELSE entry_update_target(entry_reset(bp), last'.target)
              IN  /\ Hit(a)'
                  /\ PeekWay(a)' \in 0..(bp.ways - 1)
                  /\ Hit(a) => PeekWay(a)' = PeekWay(a)
                  /\ data'[PeekWay(a)'][s] =
                        entry_update(bp.kind, pre, last'.taken, last'.target)
                  /\ IsTakenNow(a)' =
                        entry_is_taken(bp.kind, data'[PeekWay(a)'][s], a)
        /\ (/\ \/ last'.op \in QueryOps
               \/ last'.op = "update" /\ last'.pc # a
            /\ Hit(a)
            /\ Hit(a)') =>
              \/ (tags' = tags /\ data' = data)
              \/ /\ PeekWay(a)' = PeekWay(a)
                 /\ data'[PeekWay(a)][tags_set(bp, a)] = data[PeekWay(a)][tags_set(bp, a)]

C16_CoordinateSync == [][C16_Step]_vars

\* Two addresses share a set of a two-way table, sit in different ways with
\* different trained targets, and a query has just answered each address's
\* own target.
C16_Witness ==
    /\ HasTable /\ bp.ways = 2
    /\ last.op \in QueryOps
    /\ \E a, b \in Addrs :
          /\ a # b
          /\ tags_set(bp, a) = tags_set(bp, b)
          /\ Hit(a) /\ Hit(b)
          /\ PeekWay(a) # PeekWay(b)
          /\ EntryOf(a).target # EntryOf(b).target
          /\ IsTakenNow(a) /\ IsTakenNow(b)
          /\ GetTargetNow(a) = EntryOf(a).target
          /\ GetTargetNow(b) = EntryOf(b).target

(***************************************************************************)
(* C19  Frame of update.  update({a, taken, target}) changes at most one   *)
(* prediction entry, the one at the coordinate (way, set(a)) that a has    *)
(* after the call; the entry at every other coordinate keeps its state,    *)
(* and is_taken and get_target answer as before for every other address    *)
(* that is resident before and after the call.                             *)
(***************************************************************************)
C19_Step ==
    \A a \in Addrs :
        (/\ last'.op = "update" /\ last'.pc = a
         /\ HasTable) =>
            /\ \A w \in 0..(bp.ways - 1), s \in 0..(num_sets(bp) - 1) :
                  (w # PeekWay(a)' \/ s # tags_set(bp, a)) => data'[w][s] = data[w][s]
            /\ \A b \in Addrs \ {a} :
                  (Hit(b) /\ Hit(b)') =>
                      /\ IsTakenNow(b)' = IsTakenNow(b)
                      /\ GetTargetNow(b)' = GetTargetNow(b)

C19_UpdateFrame == [][C19_Step]_vars

\* The last update allocated an entry in a set where another address had
\* been trained before; that address is still resident with its trained
\* target and its entry differs from the updated one.
C19_Witness ==
    /\ HasTable /\ bp.ways = 2 /\ nupd = 2
    /\ last.op = "update"
    /\ \E b \in Addrs \ {last.pc} :
          /\ tags_set(bp, b) = tags_set(bp, last.pc)
          /\ Hit(b) /\ Hit(last.pc)
          /\ EntryOf(b).target \in Targets
          /\ EntryOf(b) # EntryOf(last.pc)

(***************************************************************************)
(* C17  Training touches the replacement order, queries do not.  In a      *)
(* recorded run on a table with at least two ways, an update that evicts   *)
(* never evicts the address most recently updated in that set, also when   *)
(* that update was a hit that changed nothing in the entry.  The evicted   *)
(* address is the resident of the set whose last update is the oldest,     *)
(* whatever queries were made since: a query does not protect an address.  *)
(***************************************************************************)
\* The position of the last update for a before call i, 0 if there is none.
LastUpdate(a, i) ==
    LET js == {j \in 1..(i - 1) : trace[j].op = "update" /\ trace[j].pc = a}
    IN  IF js = {} THEN 0 ELSE CHOOSE j \in js : \A k \in js : k <= j

C17_TrainingTouchesOrder ==
    \A i \in 1..Len(trace) :
        (trace[i].op = "update" /\ bp.ways >= 2) =>
            LET s    == tags_set(bp, trace[i].pc)
                same == {a \in trace[i].resident : tags_set(bp, a) = s}
            IN  \A x \in trace[i].evicted :
                   /\ x \in same
                   /\ \A y \in same : LastUpdate(x, i) <= LastUpdate(y, i)
                   /\ \E y \in same : LastUpdate(x, i) < LastUpdate(y, i)

\* Two ways: a and b are trained, a is trained again by a hit that changes
\* nothing, b is queried, and the next allocation evicts b, the address
\* queried last, and keeps a, the address updated last.
C17_Witness ==
    /\ HasTable /\ bp.ways = 2
    /\ Len(trace) = 5
    /\ trace[1].op = "update" /\ trace[2].op = "update"
    /\ trace[3].op = "update" /\ trace[4].op = "query"
    /\ trace[5].op = "update"
    /\ trace[3].pc = trace[1].pc
    /\ trace[4].pc = trace[2].pc
    /\ trace[3].evicted = {}
    /\ trace[5].evicted = {trace[2].pc}
    /\ Hit(trace[1].pc) /\ ~Hit(trace[2].pc)

SameGranule(a, a2) == a \div 4 = a2 \div 4

C20_Step ==
    \A a \in ByteAddrs :
        (/\ last'.op = "update" /\ last'.pc = a
         /\ HasTable) =>
            \A a2 \in ByteAddrs :
                SameGranule(a, a2) =>
                    /\ Hit(a2)'
                    /\ tags_set(bp, a2) = tags_set(bp, a)
                    /\ PeekWay(a2)' = PeekWay(a)'
                    /\ EntryOf(a2)' = EntryOf(a)'
                    /\ IsTakenNow(a2)' = entry_is_taken(bp.kind, EntryOf(a)', a2)
                    /\ Hit(a2) =>
                          /\ tags'.tag = tags.tag
                          /\ EntryOf(a)' =
                                entry_update(bp.kind, EntryOf(a2), last'.taken, last'.target)

C20_GranuleIsOneKey == [][C20_Step]_vars

\* A one-entry table was trained twice; the last update, taken, was for an
\* address that is not word aligned, and the word-aligned address of its
\* granule hits and answers taken with the trained target.
C20_Witness ==
    /\ HasTable /\ bp.size = 1
    /\ nupd = 2
    /\ last.op = "update" /\ last.taken
    /\ last.pc % 4 # 0
    /\ Hit(last.pc - (last.pc % 4))
    /\ IsTakenNow(last.pc - (last.pc % 4))
    /\ GetTargetNow(last.pc - (last.pc % 4)) = last.target

(***************************************************************************)
(* C12  Port latency, as the ports test asserts it.  No assertion of the   *)
(* test fails.  Every is_ready call of the run answers true exactly when   *)
(* a value was written to the port in the cycle before and has not been    *)
(* read since: a value written at cycle c is ready at cycle c + 1, not in  *)
(* cycle c (also for the reader clocked after the writer in that cycle),   *)
(* and not again once it was read.  The k-th read of a port returns the    *)
(* value of the k-th write, one cycle after it.                            *)
(***************************************************************************)
EventsOf(kind, p) == SelectSeq(events, LAMBDA e : e.kind = kind /\ e.port = p)

\* Before call i a value for cycle events[i].cycle is written and unread.
Pending(i) ==
    \E j \in 1..(i - 1) :
        /\ events[j].kind = "write"
        /\ events[j].port = events[i].port
        /\ events[j].cycle + 1 = events[i].cycle
        /\ \A k \in (j + 1)..(i - 1) :
              ~(events[k].kind = "read" /\ events[k].port = events[i].port)

C12_PortLatency ==
    /\ ~failed
    /\ \A i \in 1..Len(events) :
          events[i].kind = "is_ready" => (events[i].val = Pending(i))
    /\ \A p \in PortNames :
          LET R == EventsOf("read", p)
              W == EventsOf("write", p)
          IN  /\ Len(R) <= Len(W)
              /\ \A k \in 1..Len(R) :
                    R[k].cycle = W[k].cycle + 1 /\ R[k].val = W[k].val

\* A wrote to A_to_B in some cycle, B found the port not ready later in
\* that cycle and ready in the next one, read the value written, and A, in
\* the cycle it read from B_to_A, then found that port not ready.
C12_Witness ==
    /\ ~failed
    /\ \E i, j, k, l \in 1..Len(events) :
          /\ i < j /\ j < k /\ k < l
          /\ events[i].kind = "write" /\ events[i].port = "A_to_B"
          /\ events[j].kind = "is_ready" /\ events[j].port = "A_to_B"
          /\ events[j].cycle = events[i].cycle /\ ~events[j].val
          /\ events[k].kind = "is_ready" /\ events[k].port = "A_to_B"
          /\ events[k].cycle = events[i].cycle + 1 /\ events[k].val
          /\ events[l].kind = "read" /\ events[l].port = "A_to_B"
          /\ events[l].cycle = events[i].cycle + 1
          /\ events[l].val = events[i].val
    /\ \E i, j \in 1..Len(events) :
          /\ i < j
          /\ events[i].kind = "read" /\ events[i].port = "B_to_A"
          /\ events[j].kind = "is_ready" /\ events[j].port = "B_to_A"
          /\ events[j].cycle = events[i].cycle /\ ~events[j].val

(***************************************************************************)
(* C13  The ping-pong of the ports test ends on schedule.  No assertion    *)
(* fails.  The reads of the run are, in order: A reads 0 from init at      *)
(* cycle 1; B reads 1, 3, 5 at cycles 2, 4, 6; A reads 2, 4, 6 at cycles   *)
(* 3, 5, 7; the test reads stop at cycle 8.  A forwards only values up to  *)
(* DATA_LIMIT and writes stop, once, when the incremented value is above   *)
(* it.  stop is ready at cycle 8 and at no other cycle, the loop never     *)
(* reaches CLOCK_LIMIT, no written value outlives its cycle unread, and    *)
(* the test ends, at cycle 8 with every port empty.                        *)
(***************************************************************************)
Schedule ==
    << [port |-> "init_A", cycle |-> 1, val |-> 0],
       [port |-> "A_to_B", cycle |-> 2, val |-> 1],
       [port |-> "B_to_A", cycle |-> 3, val |-> 2],
       [port |-> "A_to_B", cycle |-> 4, val |-> 3],
       [port |-> "B_to_A", cycle |-> 5, val |-> 4],
       [port |-> "A_to_B", cycle |-> 6, val |-> 5],
       [port |-> "B_to_A", cycle |-> 7, val |-> 6],
       [port |-> "stop",   cycle |-> 8, val |-> TRUE] >>

Reads == SelectSeq(events, LAMBDA e : e.kind = "read")

C13_OnSchedule ==
    /\ ~failed
    /\ Len(Reads) <= Len(Schedule)
    /\ \A k \in 1..Len(Reads) :
          /\ Reads[k].port = Schedule[k].port
          /\ Reads[k].cycle = Schedule[k].cycle
          /\ Reads[k].val = Schedule[k].val
    /\ \A i \in 1..Len(events) :
          /\ (events[i].kind = "write" /\ events[i].port = "A_to_B") =>
                events[i].val <= 5
          /\ (events[i].kind = "write" /\ events[i].port = "stop") =>
                /\ events[i].cycle = 7
                /\ \E j \in 1..(i - 1) :
                      /\ events[j].kind = "read" /\ events[j].port = "B_to_A"
                      /\ events[j].cycle = events[i].cycle
                      /\ events[j].val + 1 > 5
          /\ (events[i].kind = "is_ready" /\ events[i].port = "stop") =>
                (events[i].val = (events[i].cycle = 8))
    /\ Len(EventsOf("write", "stop")) <= 1
    /\ cycle < 10
    /\ \A p \in PortNames : \A k \in 1..Len(ports[p]) : ports[p][k].cycle >= cycle
    /\ pc = "done" =>
          /\ cycle = 8
          /\ Len(Reads) = Len(Schedule)
          /\ \A p \in PortNames : ports[p] = <<>>

C13_PingPongTerminates == []C13_OnSchedule /\ <>(pc = "done")

\* The test has ended at cycle 8 after the eight reads of the schedule.
C13_Witness ==
    /\ pc = "done" /\ ~failed
    /\ cycle = 8
    /\ Len(Reads) = 8
    /\ Reads[8].port = "stop"
    /\ Len(EventsOf("write", "B_to_A")) = 3
    /\ \A p \in PortNames : ports[p] = <<>>

====
